---- MODULE Spec2Model ----
(***************************************************************************)
(* Fuzzy deduplication (app.py): blocking by leading characters, greedy    *)
(* anchor-based grouping inside each block, and annotation of the table.   *)
(*                                                                         *)
(* Similarities and thresholds are in percent (token_set_ratio returns an  *)
(* integer 0..100 that line 14 divides by 100.0; the threshold is the      *)
(* slider value times 100).  Row indices are 0-based as in the code.       *)
(***************************************************************************)
EXTENDS Integers, Sequences, FiniteSets, TLC

\* ---------------------------------------------------------------- bounds
MaxRows == 4          \* rows of the uploaded table

\* ----------------------------------------------------- program constants
ProgressEvery == 100  \* line 73: comparison_count % 100

\* ------------------------------------------------------------ input sets
NA == [na |-> TRUE, val |-> <<>>]          \* a missing cell (NaN)
Cell(s) == [na |-> FALSE, val |-> s]       \* a cell holding text s

\* Rows of a two-column table; their concatenations are
\* "a", "A b", "a b", "b a".
RowValues ==
  { <<Cell(<<"a">>), NA>>,
    <<Cell(<<"A">>), Cell(<<"b">>)>>,
    <<Cell(<<"a">>), Cell(<<"b">>)>>,
    <<Cell(<<"b">>), Cell(<<"a">>)>> }

Ratios == {50, 80, 100}              \* values token_set_ratio may return
Thresholds == {80, 100}              \* slider positions 0.8 and 1.0
LeadingChars == {1, 2}               \* slider positions 1 and 2
AnyThresholds == Thresholds \cup {-10, 150}
AnyLeadingChars == LeadingChars \cup {-1, 0}

VARIABLES
  df,                 \* the table: a sequence of rows
  threshold,          \* percent
  leading_chars,
  caller,             \* "main" (the script) or "direct" (a call of find_duplicates)
  pc,                 \* position in the program
  fuzz,               \* values the similarity measure has returned, by text pair
  groups,             \* find_duplicates: retained blocks, in dict order
  g,                  \* position of the block being processed (1-based)
  i,                  \* enumerate index of idx1 in the block (0-based)
  j,                  \* position of idx2 in the block (0-based)
  current_group,
  processed,
  duplicate_groups,   \* list of emitted clusters
  total_comparisons,
  comparison_count,
  progress,           \* progress bar value <<numerator, denominator>>
  compared,           \* pairs <<idx1, idx2>> passed to calculate_similarity (history)
  duplicate_group,    \* column added by main
  duplicate_rows,     \* column added by main
  n_duplicates,       \* summary line of main
  summary,            \* "Will perform ..." line of main
  tried,              \* thresholds the session has run with
  prev                \* what the previous run reported (history)

vars == <<df, threshold, leading_chars, caller, pc, fuzz, groups, g, i, j,
          current_group, processed, duplicate_groups, total_comparisons,
          comparison_count, progress, compared, duplicate_group,
          duplicate_rows, n_duplicates, summary, tried, prev>>

\* --------------------------------------------------------------- helpers
Min(a, b) == IF a <= b THEN a ELSE b
Max(a, b) == IF a >= b THEN a ELSE b

\* str.lower() on one character
LowerChar(c) == IF c = "A" THEN "a" ELSE IF c = "B" THEN "b" ELSE c
Lower(text) == [k \in 1..Len(text) |-> LowerChar(text[k])]

\* text[:n] with Python's slice semantics (negative n counts from the end)
PySlice(text, n) ==
  IF n >= 0 THEN SubSeq(text, 1, Min(n, Len(text)))
  ELSE SubSeq(text, 1, Max(Len(text) + n, 0))

\* ' '.join(str(val) for val in row if pd.notna(val))
RECURSIVE JoinCells(_)
JoinCells(cells) ==
  IF cells = <<>> THEN <<>>
  ELSE IF Len(cells) = 1 THEN cells[1].val
  ELSE cells[1].val \o <<" ">> \o JoinCells(Tail(cells))

NotNa(row) == SelectSeq(row, LAMBDA c : ~c.na)
Concatenate(row) == JoinCells(NotNa(row))

\* df.iloc[idx]
Iloc(table, idx) == table[idx + 1]
TextOf(table, idx) == Concatenate(Iloc(table, idx))

\* ------------------------------------------------ get_comparison_groups
\* mutant of HasLeading: the length test is off by one
HasLeadingOffByOne(text, n) == Len(text) >= n - 1
\* line 24: len(text) >= leading_chars
HasLeading(text, n) == Len(text) >= n
\* line 25: text[:leading_chars].lower()
BlockKey(text, n) == Lower(PySlice(text, n))

\* groups[key].append(idx) on an insertion-ordered dict
Append2(gs, key, idx) ==
  IF \E k \in 1..Len(gs) : gs[k].key = key
  THEN [k \in 1..Len(gs) |->
          IF gs[k].key = key
          THEN [gs[k] EXCEPT !.indices = Append(@, idx)]
          ELSE gs[k]]
  ELSE Append(gs, [key |-> key, indices |-> <<idx>>])

RECURSIVE GroupFrom(_, _, _, _)
GroupFrom(table, n, idx, gs) ==
  IF idx >= Len(table) THEN gs
  ELSE LET text == TextOf(table, idx) IN
       IF HasLeading(text, n)
       THEN GroupFrom(table, n, idx + 1, Append2(gs, BlockKey(text, n), idx))
       ELSE GroupFrom(table, n, idx + 1, gs)

Retained(group) == Len(group.indices) > 1

get_comparison_groups(table, n) ==
  SelectSeq(GroupFrom(table, n, 0, <<>>), Retained)

\* ------------------------------------------ calculate_total_comparisons
PairsOf(n) == (n * (n - 1)) \div 2

RECURSIVE calculate_total_comparisons(_)
calculate_total_comparisons(gs) ==
  IF gs = <<>> THEN 0
  ELSE PairsOf(Len(gs[1].indices)) + calculate_total_comparisons(Tail(gs))

\* ------------------------------------------------------ find_duplicates
IsDuplicate(similarity, t) == similarity >= t

Block == groups[g].indices
Idx1 == Block[i + 1]
Idx2 == Block[j + 1]

NoAnnotation == [idx \in {} |-> 0]
NoRun == [ran |-> FALSE, threshold |-> 0, leading_chars |-> 0, n_duplicates |-> 0]

Tables == UNION {[1..n -> RowValues] : n \in 0..MaxRows}

InitWith(ts, ns, who, at) ==
  /\ df \in Tables
  /\ threshold \in ts
  /\ leading_chars \in ns
  /\ caller = who
  /\ pc = at
  /\ fuzz = << >>
  /\ groups = <<>>
  /\ g = 0 /\ i = 0 /\ j = 0
  /\ current_group = {}
  /\ processed = {}
  /\ duplicate_groups = <<>>
  /\ total_comparisons = 0
  /\ comparison_count = 0
  /\ progress = <<0, 1>>
  /\ compared = {}
  /\ duplicate_group = NoAnnotation
  /\ duplicate_rows = NoAnnotation
  /\ n_duplicates = 0
  /\ summary = <<0, 0>>
  /\ tried = {}
  /\ prev = NoRun

\* a call of find_duplicates with a configuration of the documented domain
Init == InitWith(Thresholds, LeadingChars, "direct", "call")
\* a call of find_duplicates with any configuration
InitAny == InitWith(AnyThresholds, AnyLeadingChars, "direct", "call")
\* the script, after a file was uploaded and the sliders were set
InitMain == InitWith(Thresholds, LeadingChars, "main", "loaded")

main_vars == <<duplicate_group, duplicate_rows, n_duplicates, summary, tried, prev>>
input_vars == <<df, threshold, leading_chars, caller>>

\* lines 155-161: the comparison-count summary shown before the button.
\* total_possible = 0 makes line 161 divide by zero.
total_possible(table) == PairsOf(Len(table))

Summary ==
  /\ pc = "loaded"
  /\ LET total == calculate_total_comparisons(get_comparison_groups(df, leading_chars))
     IN IF total_possible(df) = 0
        THEN /\ pc' = "ZeroDivisionError"
             /\ UNCHANGED summary
        ELSE /\ pc' = "button"
             /\ summary' = <<total, total_possible(df)>>
  /\ UNCHANGED <<input_vars, fuzz, groups, g, i, j, current_group, processed,
                 duplicate_groups, total_comparisons, comparison_count,
                 progress, compared, duplicate_group, duplicate_rows,
                 n_duplicates, tried, prev>>

\* lines 42-52 (entered from line 165 when the button is clicked, or by a
\* direct call)
Enter ==
  /\ pc \in {"call", "button"}
  /\ groups' = get_comparison_groups(df, leading_chars)
  /\ duplicate_groups' = <<>>
  /\ processed' = {}
  /\ progress' = <<0, 1>>
  /\ total_comparisons' = calculate_total_comparisons(groups')
  /\ comparison_count' = 0
  /\ compared' = {}
  /\ g' = 1 /\ i' = 0 /\ j' = 0
  /\ current_group' = {}
  /\ pc' = "for_group"
  /\ UNCHANGED <<input_vars, fuzz, main_vars>>

\* lines 55-56: the next block, or the end of the outer loop
NextBlock ==
  /\ pc = "for_group"
  /\ g <= Len(groups)
  /\ i' = 0
  /\ pc' = "for_idx1"
  /\ UNCHANGED <<input_vars, fuzz, groups, g, j, current_group, processed,
                 duplicate_groups, total_comparisons, comparison_count,
                 progress, compared, main_vars>>

\* lines 58-60: idx1 was already processed
SkipAnchor ==
  /\ pc = "for_idx1"
  /\ i < Len(Block)
  /\ Idx1 \in processed
  /\ i' = i + 1
  /\ UNCHANGED <<input_vars, pc, fuzz, groups, g, j, current_group, processed,
                 duplicate_groups, total_comparisons, comparison_count,
                 progress, compared, main_vars>>

\* lines 58-63: idx1 starts a pass as the anchor
StartAnchor ==
  /\ pc = "for_idx1"
  /\ i < Len(Block)
  /\ Idx1 \notin processed
  /\ current_group' = {Idx1}
  /\ j' = i + 1
  /\ pc' = "for_idx2"
  /\ UNCHANGED <<input_vars, fuzz, groups, g, i, processed,
                 duplicate_groups, total_comparisons, comparison_count,
                 progress, compared, main_vars>>

\* lines 58, 55: the block is exhausted
EndBlock ==
  /\ pc = "for_idx1"
  /\ i >= Len(Block)
  /\ g' = g + 1
  /\ pc' = "for_group"
  /\ UNCHANGED <<input_vars, fuzz, groups, i, j, current_group, processed,
                 duplicate_groups, total_comparisons, comparison_count,
                 progress, compared, main_vars>>

\* lines 65-67: idx2 was already processed
SkipProcessed ==
  /\ pc = "for_idx2"
  /\ j < Len(Block)
  /\ Idx2 \in processed
  /\ j' = j + 1
  /\ UNCHANGED <<input_vars, pc, fuzz, groups, g, i, current_group, processed,
                 duplicate_groups, total_comparisons, comparison_count,
                 progress, compared, main_vars>>

\* lines 73-76
Report(count, total, bar) ==
  IF count % ProgressEvery = 0
  THEN IF count >= total THEN <<1, 1>> ELSE <<count, total>>
  ELSE bar

\* mutant of Joined: the match replaces the group instead of joining it
JoinedReplace(similarity, t, group, idx) ==
  IF IsDuplicate(similarity, t) THEN {idx} ELSE group
\* mutant of Marked: a match is not marked processed
MarkedNever(similarity, t, done, idx) == done
\* mutant of Marked: every compared row is marked processed
MarkedAlways(similarity, t, done, idx) == done \cup {idx}

\* lines 78-80
Joined(similarity, t, group, idx) ==
  IF IsDuplicate(similarity, t) THEN group \cup {idx} ELSE group
Marked(similarity, t, done, idx) ==
  IF IsDuplicate(similarity, t) THEN done \cup {idx} ELSE done

\* lines 65-80: one comparison.  calculate_similarity (lines 9-14) is a
\* function of the two concatenated texts: a value already returned for the
\* pair is returned again, otherwise the measure returns any of Ratios.
Compare ==
  /\ pc = "for_idx2"
  /\ j < Len(Block)
  /\ Idx2 \notin processed
  /\ LET str1 == TextOf(df, Idx1)
         str2 == TextOf(df, Idx2)
         pair == <<str1, str2>>
     IN \E similarity \in Ratios :
          /\ pair \in DOMAIN fuzz => similarity = fuzz[pair]
          /\ fuzz' = IF pair \in DOMAIN fuzz THEN fuzz
                     ELSE fuzz @@ (pair :> similarity)
          /\ comparison_count' = comparison_count + 1
          /\ progress' = Report(comparison_count', total_comparisons, progress)
          /\ current_group' = Joined(similarity, threshold, current_group, Idx2)
          /\ processed' = Marked(similarity, threshold, processed, Idx2)
  /\ compared' = compared \cup {<<Idx1, Idx2>>}
  /\ j' = j + 1
  /\ UNCHANGED <<input_vars, pc, groups, g, i, duplicate_groups,
                 total_comparisons, main_vars>>

\* mutant of Emitted: the group is emitted whatever its size
EmittedAlways(clusters, group) == Append(clusters, group)

\* lines 82-83
Emitted(clusters, group) ==
  IF Cardinality(group) > 1 THEN Append(clusters, group) ELSE clusters

\* lines 82-84: the end of idx1's pass
EndPass ==
  /\ pc = "for_idx2"
  /\ j >= Len(Block)
  /\ duplicate_groups' = Emitted(duplicate_groups, current_group)
  /\ processed' = processed \cup {Idx1}
  /\ i' = i + 1
  /\ pc' = "for_idx1"
  /\ UNCHANGED <<input_vars, fuzz, groups, g, j, current_group,
                 total_comparisons, comparison_count, progress, compared,
                 main_vars>>

\* lines 86-88
Return ==
  /\ pc = "for_group"
  /\ g > Len(groups)
  /\ progress' = <<1, 1>>
  /\ pc' = "returned"
  /\ UNCHANGED <<input_vars, fuzz, groups, g, i, j, current_group, processed,
                 duplicate_groups, total_comparisons, comparison_count,
                 compared, main_vars>>

\* sorted(group)
RECURSIVE Sorted(_)
Sorted(group) ==
  IF group = {} THEN <<>>
  ELSE LET m == CHOOSE x \in group : \A y \in group : x <= y
       IN <<m>> \o Sorted(group \ {m})

\* mutant of RowNumber: the 0-based index is written
RowNumberZeroBased(idx) == ToString(idx)

\* str(idx + 1): Excel-style row number
RowNumber(idx) == ToString(idx + 1)

\* ', '.join(str(idx + 1) for idx in group_list)
RECURSIVE JoinRows(_)
JoinRows(group_list) ==
  IF group_list = <<>> THEN ""
  ELSE IF Len(group_list) = 1 THEN RowNumber(group_list[1])
  ELSE RowNumber(group_list[1]) \o ", " \o JoinRows(Tail(group_list))

Members(group_list) == {group_list[k] : k \in 1..Len(group_list)}

\* lines 177-178 for the rows of one cluster: df.at[idx, column] = value
SetAt(col, group_list, value) ==
  [idx \in DOMAIN col |-> IF idx \in Members(group_list) THEN value ELSE col[idx]]

GroupLabel(group_idx) == group_idx + 1

\* lines 172-178, from cluster number group_idx (0-based) on; cols holds the
\* two new columns
RECURSIVE Populate(_, _, _)
Populate(clusters, group_idx, cols) ==
  IF group_idx >= Len(clusters) THEN cols
  ELSE LET group_list == Sorted(clusters[group_idx + 1])
           rows_str == JoinRows(group_list)
       IN Populate(clusters, group_idx + 1,
                   [duplicate_group |->
                      SetAt(cols.duplicate_group, group_list, GroupLabel(group_idx)),
                    duplicate_rows |->
                      SetAt(cols.duplicate_rows, group_list, rows_str)])

\* lines 168-169
NewColumns(table) ==
  [duplicate_group |-> [idx \in 0..(Len(table) - 1) |-> -1],
   duplicate_rows |-> [idx \in 0..(Len(table) - 1) |-> ""]]

RECURSIVE SumSizes(_)
SumSizes(clusters) ==
  IF clusters = <<>> THEN 0
  ELSE Cardinality(clusters[1]) + SumSizes(Tail(clusters))

\* lines 168-182
Annotate ==
  /\ pc = "returned"
  /\ caller = "main"
  /\ LET cols == Populate(duplicate_groups, 0, NewColumns(df))
     IN /\ duplicate_group' = cols.duplicate_group
        /\ duplicate_rows' = cols.duplicate_rows
  /\ n_duplicates' = SumSizes(duplicate_groups)
  /\ tried' = tried \cup {threshold}
  /\ pc' = "annotated"
  /\ UNCHANGED <<input_vars, fuzz, groups, g, i, j, current_group, processed,
                 duplicate_groups, total_comparisons, comparison_count,
                 progress, compared, summary, prev>>

\* The user moves the threshold slider to a position not tried yet and the
\* script runs again from the top on the same upload (line 128 reads the
\* table anew, without the added columns); prev keeps what the finished run
\* reported.
Rerun ==
  /\ pc = "annotated"
  /\ threshold' \in Thresholds \ tried
  /\ prev' = [ran |-> TRUE, threshold |-> threshold,
               leading_chars |-> leading_chars, n_duplicates |-> n_duplicates]
  /\ duplicate_group' = NoAnnotation
  /\ duplicate_rows' = NoAnnotation
  /\ pc' = "loaded"
  /\ UNCHANGED <<df, leading_chars, caller, fuzz, groups, g, i, j,
                 current_group, processed, duplicate_groups,
                 total_comparisons, comparison_count, progress, compared,
                 n_duplicates, summary, tried>>

FindDuplicates ==
  \/ Enter
  \/ NextBlock
  \/ SkipAnchor
  \/ StartAnchor
  \/ EndBlock
  \/ SkipProcessed
  \/ Compare
  \/ EndPass
  \/ Return

Next == FindDuplicates
Spec == Init /\ [][Next]_vars
SpecAny == InitAny /\ [][Next]_vars

NextMain ==
  \/ Summary
  \/ FindDuplicates
  \/ Annotate
  \/ Rerun
SpecMain == InitMain /\ [][NextMain]_vars

\* ------------------------------------------------------------ properties
Rows == 0..(Len(df) - 1)
Clusters == {duplicate_groups[k] : k \in 1..Len(duplicate_groups)}
Clustered == UNION Clusters
Text(idx) == TextOf(df, idx)
BlockMembers(k) == {groups[k].indices[p] : p \in 1..Len(groups[k].indices)}
\* position of idx in block k
PosIn(k, idx) == CHOOSE p \in 1..Len(groups[k].indices) : groups[k].indices[p] = idx
\* the similarity the measure returned for the rows a and b, a compared to b
Measured(a, b) == fuzz[<<Text(a), Text(b)>>]
Finished == pc \in {"returned", "annotated"}

\* C1: the clusters emitted so far are pairwise disjoint, at every point of
\* the run and at its end: no row index is in two clusters.
C1_Disjoint ==
  \A k, l \in 1..Len(duplicate_groups) :
    k # l => duplicate_groups[k] \cap duplicate_groups[l] = {}

\* C1 witness: the run has ended with two clusters emitted.
C1_Witness ==
  /\ pc = "returned"
  /\ Len(duplicate_groups) >= 2

\* the first leading_chars characters of the text, lowercased
LeadingLower(idx) == [k \in 1..leading_chars |-> LowerChar(Text(idx)[k])]
SameLeading(a, b) ==
  /\ Len(Text(a)) >= leading_chars
  /\ Len(Text(b)) >= leading_chars
  /\ LeadingLower(a) = LeadingLower(b)

ValidConfiguration == threshold \in 0..100 /\ leading_chars >= 1
C4_InvalidRejected ==
  ~ValidConfiguration =>
    /\ pc \in {"call", "ConfigurationError"}
    /\ groups = <<>>
    /\ comparison_count = 0
    /\ duplicate_groups = <<>>

\* the 1-based row numbers of the members of cluster c from row r on,
\* ascending and joined by ", "
RECURSIVE RowList(_, _)
RowList(c, r) ==
  IF r > Len(df) THEN ""
  ELSE IF (r - 1) \notin c THEN RowList(c, r + 1)
  ELSE IF \E q \in (r + 1)..Len(df) : (q - 1) \in c
       THEN ToString(r) \o ", " \o RowList(c, r + 1)
       ELSE ToString(r)

C6_EmptyCompletes ==
  Len(df) = 0 =>
    /\ pc # "ZeroDivisionError"
    /\ groups = <<>>
    /\ comparison_count = 0
    /\ duplicate_groups = <<>>

\* sum of n*(n-1)/2 over the retained blocks
RECURSIVE SumPairs(_)
SumPairs(k) ==
  IF k = 0 THEN 0
  ELSE LET n == Cardinality(BlockMembers(k)) IN (n * (n - 1)) \div 2 + SumPairs(k - 1)

\* C7 (as claimed): total_comparisons is the sum over the retained blocks of
\* n*(n-1)/2, and when find_duplicates has returned comparison_count equals
\* total_comparisons.
C7_CountReachesTotal ==
  /\ pc \notin {"call", "loaded", "button"} =>
       total_comparisons = SumPairs(Len(groups))
  /\ pc = "returned" => comparison_count = total_comparisons

\* C2 (as claimed): of two runs on the same table with the same
\* leading_chars, the one with the higher threshold flags at most as many
\* rows as the other.
C2_ThresholdMonotone ==
  (pc = "annotated" /\ prev.ran /\ prev.leading_chars = leading_chars) =>
    /\ prev.threshold <= threshold => n_duplicates <= prev.n_duplicates
    /\ threshold <= prev.threshold => prev.n_duplicates <= n_duplicates

\* C8: when the run has ended, two rows a and c that were both compared to
\* the same anchor b with a similarity of at least the threshold are in one
\* cluster with b, whatever the similarity of a and c is.
C8_Chained ==
  Finished =>
    \A a, b, c \in Rows :
      ( /\ <<b, a>> \in compared /\ IsDuplicate(Measured(b, a), threshold)
        /\ <<b, c>> \in compared /\ IsDuplicate(Measured(b, c), threshold) )
      => \E cl \in Clusters : {a, b, c} \subseteq cl

\* C8 witness: the three rows of a table are one cluster of the anchor b and
\* two rows a and c whose similarity, measured by the session's earlier run
\* at a higher threshold, is below the threshold.
C8_Witness ==
  /\ Finished
  /\ Len(df) = 3
  /\ \E cl \in Clusters : \E a, b, c \in cl :
       /\ a # c
       /\ <<b, a>> \in compared
       /\ <<b, c>> \in compared
       /\ <<Text(a), Text(c)>> \in DOMAIN fuzz
       /\ Measured(a, c) < threshold

\* the anchor of a cluster: its member that comes first in its block
AnchorOf(c) ==
  CHOOSE a \in c :
    \E k \in 1..Len(groups) :
      /\ c \subseteq BlockMembers(k)
      /\ \A m \in c : PosIn(k, a) <= PosIn(k, m)

\* every emitted cluster is anchored
C9_Anchored ==
  \A c \in Clusters :
    /\ Cardinality(c) >= 2
    /\ \E k \in 1..Len(groups) : c \subseteq BlockMembers(k)
    /\ \A m \in c \ {AnchorOf(c)} :
         /\ <<AnchorOf(c), m>> \in compared
         /\ Measured(AnchorOf(c), m) >= threshold

\* what a comparison and an emission find in the processed set
C9_Step ==
  /\ \A p \in compared' \ compared :
       p[1] \notin processed /\ p[2] \notin processed
  /\ duplicate_groups' # duplicate_groups =>
       LET c == duplicate_groups'[Len(duplicate_groups')] IN
         /\ AnchorOf(c) \notin processed
         /\ c \ {AnchorOf(c)} \subseteq processed

\* C9: every emitted cluster has at least two members, all of one block;
\* every member other than the anchor (the first of them in the block) was
\* compared to the anchor with a similarity of at least the threshold; and a
\* comparison only takes an anchor and a row that are both unprocessed, the
\* anchor staying unprocessed until its cluster is emitted.
C9_AnchoredClusters == []C9_Anchored /\ [][C9_Step]_vars

\* C9 witness: a cluster of three rows has been emitted.
C9_Witness ==
  /\ pc = "returned"
  /\ \E c \in Clusters : Cardinality(c) = 3

\* C10: when the run has ended, two rows of one retained block that are both
\* in no cluster were compared with each other and their similarity is below
\* the threshold.
C10_UniqueDissimilar ==
  pc = "returned" =>
    \A k \in 1..Len(groups) : \A u, v \in BlockMembers(k) :
      (PosIn(k, u) < PosIn(k, v) /\ u \notin Clustered /\ v \notin Clustered)
      => /\ <<u, v>> \in compared
         /\ Measured(u, v) < threshold

\* C10 witness: the run has ended with a cluster emitted and with two rows
\* of one block that are in no cluster.
C10_Witness ==
  /\ pc = "returned"
  /\ Clusters # {}
  /\ \E k \in 1..Len(groups) : \E u, v \in BlockMembers(k) :
       /\ u # v /\ u \notin Clustered /\ v \notin Clustered
====
